---- MODULE Spec2Model ----
(***************************************************************************)
(* Detailed JWT verification of the MCP service                            *)
(* (superset/mcp_service/jwt_verifier.py).                                 *)
(*                                                                         *)
(* The module models the failure channel (the _jwt_failure_reason          *)
(* ContextVar), DetailedJWTVerifier.load_access_token with its one         *)
(* suspension point (key resolution), DetailedBearerAuthBackend            *)
(* .authenticate behind starlette's AuthenticationMiddleware, and the      *)
(* error formatter _json_auth_error_handler.                               *)
(*                                                                         *)
(* Representation.  A Python string that is built by formatting is a       *)
(* sequence of fragments (its literal pieces and the values interpolated   *)
(* into it), so "the text contains the value v" is "v is a fragment".      *)
(* A value that may be None, a str or a list is a tagged record [k, v].    *)
(* A token string is abstracted by the number of parts split(".") gives    *)
(* and by what its first part decodes to.                                  *)
(***************************************************************************)
EXTENDS Integers, Sequences, FiniteSets, TLC

\* ------------------------------------------------------------- bounds

\* The epoch second time.time() returns during the explicit expiry check.
Now == 2

\* ------------------------------------------------------ Python values

PyNone == [k |-> "none", v |-> <<>>]
Str(s) == [k |-> "str", v |-> <<s>>]
List(q) == [k |-> "list", v |-> q]

Range(q) == {q[i] : i \in DOMAIN q}

\* bool(x) of None, a str or a list.
Truthy(x) ==
    CASE x.k = "none" -> FALSE
      [] x.k = "str" -> x.v[1] # ""
      [] OTHER -> x.v # <<>>

\* Mutant: None is a member of every list.
InOrNone(x, lst) == x.k = "none" \/ (x.k = "str" /\ x.v[1] \in Range(lst.v))

\* `x in lst` for a list of str: None and lists are never members.
In(x, lst) == x.k = "str" /\ x.v[1] \in Range(lst.v)

\* The fragments a value contributes when it is interpolated (%s).
Shown(x) == IF x.k = "none" THEN <<"None">> ELSE x.v

\* An exp claim: absent, a number of epoch seconds, a string, or the float
\* infinity (JSON 1e999).
NoExp == [k |-> "none", n |-> 0]
Num(n) == [k |-> "num", n |-> n]
StrExp == [k |-> "str", n |-> 0]
InfExp == [k |-> "inf", n |-> 0]

\* bool(exp): None and 0 are falsy.
ExpTruthy(e) == e.k # "none" /\ ~(e.k = "num" /\ e.n = 0)

\* ----------------------------------------------------------- exceptions

\* The class of an exception with its base classes.
Bases(cls) ==
    CASE cls = "ValueError" -> {"ValueError", "Exception"}
      [] cls = "DecodeError" -> {"DecodeError", "JoseError", "Exception"}
      [] cls = "BadSignatureError" -> {"BadSignatureError", "JoseError", "Exception"}
      [] cls = "ExpiredTokenError" -> {"ExpiredTokenError", "JoseError", "Exception"}
      [] cls = "JoseError" -> {"JoseError", "Exception"}
      [] cls = "KeyError" -> {"KeyError", "LookupError", "Exception"}
      [] cls = "AttributeError" -> {"AttributeError", "Exception"}
      [] cls = "TypeError" -> {"TypeError", "Exception"}
      [] cls = "RecursionError" -> {"RecursionError", "RuntimeError", "Exception"}
      [] cls = "OverflowError" -> {"OverflowError", "ArithmeticError", "Exception"}
      [] cls = "CancelledError" -> {"CancelledError", "BaseException"}
      [] OTHER -> {cls}

\* isinstance(e, classes), as an except clause tests it.
IsInstance(e, classes) == Bases(e.cls) \cap classes # {}

NoExc == [cls |-> "-", msg |-> "-"]
Exc(cls, msg) == [cls |-> cls, msg |-> msg]

\* --------------------------------------------------------------- logging

\* Mutant: the details are logged at WARNING.
DebugAtWarning(text) == [level |-> "WARNING", msg |-> text]

Debug(text) == [level |-> "DEBUG", msg |-> text]
Warning(text) == [level |-> "WARNING", msg |-> text]

\* ------------------------------------------------- failure categories

\* The value load_access_token stores in the channel at each failing
\* branch.  Each takes the values that are in scope at that branch.
MalformedReason(e) == <<"Malformed token header">>

AlgorithmMismatchReason(token_alg, algorithm) == <<"Algorithm mismatch">>

KeyFailureReason(e) == <<"Failed to get verification key">>

SignatureReason == <<"Signature verification failed">>

ExpiredDuringDecodeReason == <<"Token has expired (detected during decode)">>

DecodeFailedReason(e) == <<"Token decode failed">>

TokenExpiredReason(client_id) == <<"Token expired">>

\* Mutant: the category carries the two issuers.
IssuerMismatchReasonDetailed(iss, issuer) ==
    <<"Issuer mismatch: token has '">> \o Shown(iss) \o <<"', expected '">>
    \o Shown(issuer) \o <<"'">>

IssuerMismatchReason(iss, issuer) == <<"Issuer mismatch">>

AudienceMismatchReason(aud, audience) == <<"Audience mismatch">>

MissingScopesReason(missing) == <<"Missing required scopes">>

ValidationFailedReason(e) == <<"Token validation failed">>

\* The closed set of categories (spec.md, FailureCategory).
FailureCategory ==
    { <<"Malformed token header">>, <<"Algorithm mismatch">>,
      <<"Failed to get verification key">>,
      <<"Signature verification failed">>,
      <<"Token has expired (detected during decode)">>, <<"Token expired">>,
      <<"Issuer mismatch">>, <<"Audience mismatch">>,
      <<"Missing required scopes">>, <<"Token decode failed">>,
      <<"Token validation failed">> }

\* The channel's default, None.
NoReason == <<>>

\* ------------------------------------------------------- header decode

Return(val) == [tag |-> "ok", exc |-> NoExc, val |-> val]
Raise(cls, msg) == [tag |-> "exc", exc |-> Exc(cls, msg), val |-> <<>>]

\* Mutant: more than 3 parts are accepted.
DecodeTokenHeaderAtLeast3(token) ==
    IF token.parts < 3
    THEN Raise("ValueError", "Token must have 3 parts")
    ELSE CASE token.header.enc = "badb64" -> Raise("ValueError", "Incorrect padding")
           [] token.header.enc = "notjson" -> Raise("ValueError", "Expecting value")
           [] token.header.enc = "deep" -> Raise("RecursionError", "maximum recursion depth exceeded")
           [] OTHER -> Return(<<token.header.json>>)

\* _decode_token_header: split on ".", require 3 parts, restore padding,
\* base64url-decode and json.loads the first part.  The result is whatever
\* JSON value the first part holds, a mapping or not.
DecodeTokenHeader(token) ==
    IF token.parts # 3
    THEN Raise("ValueError", "Token must have 3 parts")
    ELSE CASE token.header.enc = "badb64" -> Raise("ValueError", "Incorrect padding")
           [] token.header.enc = "notjson" -> Raise("ValueError", "Expecting value")
           [] token.header.enc = "deep" -> Raise("RecursionError", "maximum recursion depth exceeded")
           [] OTHER -> Return(<<token.header.json>>)

\* ------------------------------------------------ load_access_token

\* What one run of load_access_token (or of its part before or after the
\* suspension) did: how it ended, the channel's value at its end, the
\* stages it entered, the category writes it made, its log entries.
\* Mutant: after the branch has set its category, the outer except clause
\* sets "Token validation failed" over it.
FailOverwritten(reason, logs, stages) ==
    [ret |-> "none", exc |-> NoExc, reason |-> <<"Token validation failed">>,
     stages |-> stages, writes |-> 2, logs |-> logs, principal |-> <<>>]

Fail(reason, logs, stages) ==
    [ret |-> "none", exc |-> NoExc, reason |-> reason, stages |-> stages,
     writes |-> 1, logs |-> logs, principal |-> <<>>]

Propagate(e, stages) ==
    [ret |-> "raise", exc |-> e, reason |-> NoReason, stages |-> stages,
     writes |-> 0, logs |-> <<>>, principal |-> <<>>]

Await(stages) ==
    [ret |-> "await", exc |-> NoExc, reason |-> NoReason, stages |-> stages,
     writes |-> 0, logs |-> <<>>, principal |-> <<>>]

Success(principal, stages) ==
    [ret |-> "principal", exc |-> NoExc, reason |-> NoReason,
     stages |-> stages, writes |-> 0, logs |-> <<>>,
     principal |-> <<principal>>]

\* Mutant: the except clause around the whole pipeline names BaseException.
BoundaryClassesBase == {"BaseException", "Exception"}

\* The classes the except clause around the whole pipeline names.
BoundaryClasses ==
    {"ValueError", "JoseError", "KeyError", "AttributeError", "TypeError"}

\* The except clause around the whole pipeline.
Boundary(e, stages) ==
    IF IsInstance(e, BoundaryClasses)
    THEN Fail(ValidationFailedReason(e),
              <<Debug(<<"Token validation failed: ", e.msg>>)>>, stages)
    ELSE Propagate(e, stages)

\* The classes the handler around _decode_token_header names.
HeaderHandlerClasses == {"ValueError", "DecodeError"}

\* Mutant: a header without alg passes the algorithm check.
AlgorithmRejectedIfPresent(algorithm, token_alg) ==
    Truthy(algorithm) /\ Truthy(token_alg) /\ token_alg # algorithm

\* The algorithm check: `self.algorithm and token_alg != self.algorithm`.
AlgorithmRejected(algorithm, token_alg) ==
    Truthy(algorithm) /\ token_alg # algorithm

\* load_access_token from the reset of the channel to the await of
\* _get_verification_key.
LoadPhase1(cfg, token) ==
    LET hdr == DecodeTokenHeader(token) IN
    IF hdr.tag = "exc"
    THEN IF IsInstance(hdr.exc, HeaderHandlerClasses)
         THEN Fail(MalformedReason(hdr.exc),
                   <<Debug(<<"Malformed token header: ", hdr.exc.msg>>)>>,
                   <<"header">>)
         ELSE Boundary(hdr.exc, <<"header">>)
    ELSE LET header == hdr.val[1] IN
         IF header.k # "map"
         THEN Boundary(Exc("AttributeError", "object has no attribute 'get'"),
                       <<"header", "alg">>)
         ELSE LET token_alg == header.alg IN
              IF AlgorithmRejected(cfg.algorithm, token_alg)
              THEN Fail(AlgorithmMismatchReason(token_alg, cfg.algorithm),
                        <<Debug(<<"Algorithm mismatch: token uses '">>
                                \o Shown(token_alg) \o <<"', expected '">>
                                \o Shown(cfg.algorithm) \o <<"'">>)>>,
                        <<"header", "alg">>)
              ELSE Await(<<"header", "alg", "key">>)

\* The client identity used in the logs and in the principal:
\* client_id or azp or sub or "unknown".
ClientId(claims) ==
    IF Truthy(claims.client_id) THEN claims.client_id.v[1]
    ELSE IF Truthy(claims.azp) THEN claims.azp.v[1]
    ELSE IF Truthy(claims.sub) THEN claims.sub.v[1]
    ELSE "unknown"

\* Mutant: the comparison is `<=`.
ExpiryCheckInclusive(exp, t) ==
    IF ~ExpTruthy(exp) THEN "no"
    ELSE CASE exp.k = "str" -> "TypeError"
           [] exp.k = "inf" -> "no"
           [] OTHER -> IF exp.n <= t THEN "yes" ELSE "no"

\* `exp and exp < time.time()`: "yes", "no", or the TypeError that
\* comparing a str with a float raises.
ExpiryCheck(exp, t) ==
    IF ~ExpTruthy(exp) THEN "no"
    ELSE CASE exp.k = "str" -> "TypeError"
           [] exp.k = "inf" -> "no"
           [] OTHER -> IF exp.n < t THEN "yes" ELSE "no"

\* Mutant: a configured list is represented by its first element.
IssuerValidFirstOnly(issuer, iss) ==
    IF issuer.k = "list" THEN iss = Str(issuer.v[1]) ELSE iss = issuer

\* The issuer check: membership for a configured list, equality otherwise.
IssuerValid(issuer, iss) ==
    IF issuer.k = "list" THEN In(iss, issuer) ELSE iss = issuer

\* Mutant: a token list must hold every value of a configured list.
AudienceValidAll(audience, aud) ==
    IF audience.k = "list"
    THEN IF aud.k = "list"
         THEN \A i \in DOMAIN audience.v : audience.v[i] \in Range(aud.v)
         ELSE In(aud, audience)
    ELSE IF aud.k = "list"
         THEN In(audience, aud)
         ELSE aud = audience

\* The audience check, in its four list/scalar branches.
AudienceValid(audience, aud) ==
    IF audience.k = "list"
    THEN IF aud.k = "list"
         THEN \E i \in DOMAIN audience.v : audience.v[i] \in Range(aud.v)
         ELSE In(aud, audience)
    ELSE IF aud.k = "list"
         THEN In(audience, aud)
         ELSE aud = audience

\* str.split() on the scope strings that occur.
Split(s) ==
    CASE s = "" -> <<>>
      [] s = "r w" -> <<"r", "w">>
      [] OTHER -> <<s>>

\* Mutant: a string scope claim is taken as one scope.
ExtractScopesUnsplit(claims) ==
    IF claims.scope.k = "none" THEN <<>> ELSE claims.scope.v

\* JWTVerifier._extract_scopes of the base class: the words of a string
\* scope claim, the elements of a list one, else the empty list.
ExtractScopes(claims) ==
    IF claims.scope.k = "none" THEN <<>>
    ELSE IF claims.scope.k = "str" THEN Split(claims.scope.v[1])
    ELSE claims.scope.v

\* `int(exp) if exp else None`; int() of the float infinity raises.
ExpiresAt(exp) ==
    IF ~ExpTruthy(exp) THEN Return(<<NoExp>>)
    ELSE IF exp.k = "inf"
         THEN Raise("OverflowError", "cannot convert float infinity to integer")
         ELSE Return(<<Num(exp.n)>>)

\* Steps 5 to 7 and the construction of the AccessToken.
ClaimChecks(cfg, token, claims, client_id, stages5) ==
    LET iss == claims.iss
        aud == claims.aud
        stages6 == IF Truthy(cfg.issuer) THEN Append(stages5, "iss") ELSE stages5
        stages7 == IF Truthy(cfg.audience) THEN Append(stages6, "aud") ELSE stages6
        stages8 == Append(stages7, "scopes")
        scopes == ExtractScopes(claims)
        missing == Range(cfg.required_scopes) \ Range(scopes)
        expires_at == ExpiresAt(claims.exp)
    IN
    IF Truthy(cfg.issuer) /\ ~IssuerValid(cfg.issuer, iss)
    THEN Fail(IssuerMismatchReason(iss, cfg.issuer),
              <<Debug(<<"Issuer mismatch: token has '">> \o Shown(iss)
                      \o <<"', expected '">> \o Shown(cfg.issuer) \o <<"'">>)>>,
              stages6)
    ELSE IF Truthy(cfg.audience) /\ ~AudienceValid(cfg.audience, aud)
    THEN Fail(AudienceMismatchReason(aud, cfg.audience),
              <<Debug(<<"Audience mismatch: token has '">> \o Shown(aud)
                      \o <<"', expected '">> \o Shown(cfg.audience) \o <<"'">>)>>,
              stages7)
    ELSE IF cfg.required_scopes # <<>> /\ claims.scope.k = "badlist"
    THEN Boundary(Exc("TypeError", "unhashable type"), stages8)
    ELSE IF cfg.required_scopes # <<>> /\ missing # {}
    THEN Fail(MissingScopesReason(missing),
              <<Debug(<<"Missing required scopes: ">>
                      \o cfg.required_scopes \o <<". Token has: ">> \o scopes)>>,
              stages8)
    ELSE IF claims.scope.k = "badlist"
    THEN Boundary(Exc("ValueError", "validation error for AccessToken"), stages8)
    ELSE IF expires_at.tag = "exc"
    THEN Boundary(expires_at.exc, stages8)
    ELSE Success([token |-> token, client_id |-> client_id, scopes |-> scopes,
                  expires_at |-> expires_at.val[1], claims |-> claims],
                 stages8)

\* Mutant: the first handler around jwt.decode names the library's base
\* class.
SignatureHandlerClassesAny == {"JoseError"}

\* The class the first handler around jwt.decode names.
SignatureHandlerClasses == {"BadSignatureError"}

\* Mutant: the handler around _get_verification_key names another class.
KeyHandlerClassesNarrow == {"KeyError"}

\* The class the handler around _get_verification_key names.
KeyHandlerClasses == {"ValueError"}

\* Step 4 (expiry) and then steps 5 to 7, on the decoded claims.
ClaimStages(cfg, token, claims, t, stages4) ==
    LET stages5 == Append(stages4, "exp")
        client_id == ClientId(claims)
        expired == ExpiryCheck(claims.exp, t)
    IN
    IF expired = "TypeError"
    THEN Boundary(Exc("TypeError", "'<' not supported between 'str' and 'float'"),
                  stages5)
    ELSE IF expired = "yes"
    THEN Fail(TokenExpiredReason(client_id),
              <<Debug(<<"Token expired for client '", client_id, "'">>)>>,
              stages5)
    ELSE ClaimChecks(cfg, token, claims, client_id, stages5)

\* Mutant: the entry names the key the decode was tried with.
DecodeFailedLogWithKey(e, verification_key) ==
    Debug(<<"Token decode failed: ", e.msg, " with key ", verification_key>>)

\* `logger.debug("Token decode failed: %s", e)`, with the key in scope.
DecodeFailedLog(e, verification_key) ==
    Debug(<<"Token decode failed: ", e.msg>>)

\* load_access_token from the return of _get_verification_key to its end.
\* key and dec are what _get_verification_key and jwt.decode did; t is what
\* time.time() returns.
LoadPhase2(cfg, token, key, dec, t) ==
    LET stages3 == <<"header", "alg", "key">>
        stages4 == Append(stages3, "decode")
    IN
    IF key.tag = "exc"
    THEN IF IsInstance(key.exc, KeyHandlerClasses)
         THEN Fail(KeyFailureReason(key.exc),
                   <<Debug(<<"Failed to get verification key: ", key.exc.msg>>)>>,
                   stages3)
         ELSE Boundary(key.exc, stages3)
    ELSE IF dec.tag = "exc"
    THEN IF IsInstance(dec.exc, SignatureHandlerClasses)
         THEN Fail(SignatureReason, <<>>, stages4)
         ELSE IF IsInstance(dec.exc, {"ExpiredTokenError"})
         THEN Fail(ExpiredDuringDecodeReason, <<>>, stages4)
         ELSE IF IsInstance(dec.exc, {"JoseError"})
         THEN Fail(DecodeFailedReason(dec.exc),
                   <<DecodeFailedLog(dec.exc, key.val[1])>>, stages4)
         ELSE Boundary(dec.exc, stages4)
    ELSE ClaimStages(cfg, token, dec.val[1], t, stages4)

\* ------------------------------------------------------ error formatter

\* Mutant: the response describes the error with the exception's message.
JsonAuthErrorHandlerLeaky(message) ==
    [response |-> [status_code |-> 401,
                   error |-> <<"invalid_token">>,
                   error_description |-> message,
                   www_authenticate |-> <<"Bearer error=\"invalid_token\"">>],
     logs |-> <<Warning(<<"JWT authentication failed: ">> \o message)>>]

\* _json_auth_error_handler: the JSONResponse it returns and the entry it
\* logs.  message is str(exc).
JsonAuthErrorHandler(message) ==
    [response |-> [status_code |-> 401,
                   error |-> <<"invalid_token">>,
                   error_description |-> <<"Authentication failed">>,
                   www_authenticate |-> <<"Bearer error=\"invalid_token\"">>],
     logs |-> <<Warning(<<"JWT authentication failed: ">> \o message)>>]

\* -------------------------------------------------------- authenticate

\* str.lower() on the header names and schemes that occur.
Lower(s) ==
    CASE s = "Authorization" -> "authorization"
      [] s = "AUTHORIZATION" -> "authorization"
      [] s = "Bearer" -> "bearer"
      [] s = "BEARER" -> "bearer"
      [] s = "Basic" -> "basic"
      [] OTHER -> s

\* Mutant: the header name and the scheme are matched as spelled.
HasBearerExact(req) ==
    req.key = "Authorization" /\ req.scheme = "Bearer"

\* The lookup of the Authorization header and the test of its scheme:
\* `auth_header and auth_header.lower().startswith("bearer ")`.
HasBearer(req) ==
    Lower(req.key) = "authorization" /\ Lower(req.scheme) = "bearer"

\* Mutant: the base backend also drops a principal that expires at the very
\* second of its check.
SuperAuthenticateInclusive(load, t2) ==
    IF load.ret = "principal"
    THEN LET p == load.principal[1] IN
         IF ExpTruthy(p.expires_at) /\ p.expires_at.n <= t2
         THEN "none" ELSE "credentials"
    ELSE "none"

\* BearerAuthBackend.authenticate of the base class, after verify_token
\* (load_access_token) ended as `load`: the credentials, or None when there
\* is no result or its expires_at lies before int(time.time()) = t2.
SuperAuthenticate(load, t2) ==
    IF load.ret = "principal"
    THEN LET p == load.principal[1] IN
         IF ExpTruthy(p.expires_at) /\ p.expires_at.n < t2
         THEN "none" ELSE "credentials"
    ELSE "none"

\* Mutant: a category in the channel is raised whatever the request holds.
AuthenticateAnyHeader(req, result, channel) ==
    IF result # "none"
    THEN [kind |-> "authenticated", raised |-> NoReason, channel |-> NoReason]
    ELSE IF channel # NoReason
         THEN [kind |-> "raise", raised |-> channel, channel |-> NoReason]
         ELSE [kind |-> "anonymous", raised |-> NoReason, channel |-> channel]

\* DetailedBearerAuthBackend.authenticate once super().authenticate returned
\* `result`, with `channel` the failure channel at that moment: what it
\* returns or raises and the channel it leaves.
Authenticate(req, result, channel) ==
    IF result # "none"
    THEN [kind |-> "authenticated", raised |-> NoReason, channel |-> NoReason]
    ELSE IF HasBearer(req) /\ channel # NoReason
         THEN [kind |-> "raise", raised |-> channel, channel |-> NoReason]
         ELSE [kind |-> "anonymous", raised |-> NoReason, channel |-> channel]

\* AuthenticationMiddleware with on_error = _json_auth_error_handler (as
\* get_middleware wires it): an AuthenticationError becomes the handler's
\* response, any other outcome goes on to the application.
Dispatch(auth, t2) ==
    IF auth.kind = "raise"
    THEN LET h == JsonAuthErrorHandler(auth.raised) IN
         [kind |-> "401", response |-> <<h.response>>, raised |-> auth.raised,
          logs |-> h.logs, t2 |-> t2]
    ELSE [kind |-> auth.kind, response |-> <<>>, raised |-> NoReason,
          logs |-> <<>>, t2 |-> t2]

\* ---------------------------------------------------------------- inputs

\* The most parts a token splits into.
MaxParts == 4

\* What the first part of a token decodes to.
HeaderParts ==
    { [enc |-> e, json |-> [k |-> "list", alg |-> PyNone]] :
        e \in {"badb64", "notjson", "deep", "ok"} }
    \cup { [enc |-> "ok", json |-> [k |-> "map", alg |-> a]] :
             a \in {PyNone, Str("HS256"), Str("RS256")} }

\* A well-formed header naming HS256, and a first part that is not base64.
GoodHeader == [enc |-> "ok", json |-> [k |-> "map", alg |-> Str("HS256")]]
BadHeader == [enc |-> "badb64", json |-> [k |-> "list", alg |-> PyNone]]

\* The tokens: three parts with every kind of first part, and any other
\* number of parts with a first part that would or would not decode.
Tokens ==
    [parts : {3}, header : HeaderParts]
    \cup [parts : (1..MaxParts) \ {3}, header : {GoodHeader, BadHeader}]

\* The verifier's configuration (the constructor's arguments).
Configs ==
    { [algorithm |-> Str("HS256"), issuer |-> Str("iss-a"),
       audience |-> Str("aud-a"), required_scopes |-> <<>>],
      [algorithm |-> PyNone, issuer |-> PyNone,
       audience |-> PyNone, required_scopes |-> <<>>],
      [algorithm |-> Str("HS256"), issuer |-> List(<<"iss-b", "iss-a">>),
       audience |-> List(<<"aud-b", "aud-a">>), required_scopes |-> <<"r">>],
      [algorithm |-> PyNone, issuer |-> Str("iss-a"),
       audience |-> List(<<"aud-b", "aud-a">>), required_scopes |-> <<"r", "w">>],
      [algorithm |-> Str("HS256"), issuer |-> List(<<"iss-b", "iss-a">>),
       audience |-> Str("aud-a"), required_scopes |-> <<>>] }

\* The claim sets jwt.decode may return: every combination of exp, iss, aud
\* and scope for one subject, and every combination of the identity claims
\* and exp for claims that pass the other checks of every configuration.
ExpValues ==
    {NoExp, Num(0), Num(Now - 1), Num(Now), Num(Now + 1), StrExp, InfExp}

ClaimSets ==
    [client_id : {PyNone}, azp : {PyNone}, sub : {Str("user1")},
     exp : ExpValues,
     iss : {PyNone, Str("iss-a"), Str("iss-x")},
     aud : {PyNone, Str("aud-a"), Str("aud-x"),
            List(<<"aud-x", "aud-a">>), List(<<"aud-x">>)},
     scope : {PyNone, Str("r"), Str("r w"), List(<<"r", "w">>),
              [k |-> "badlist", v |-> <<"r">>]}]
    \cup
    [client_id : {PyNone, Str(""), Str("client-1")},
     azp : {PyNone, Str("azp-1")},
     sub : {PyNone, Str("user1")},
     exp : ExpValues,
     iss : {Str("iss-a")}, aud : {Str("aud-a")},
     scope : {List(<<"r", "w">>)}]

\* The verification key.
Secret == "test-secret-key-for-hs256-tokens"

\* What _get_verification_key does: it returns the key, or raises the
\* ValueError the base class raises for every failure to resolve one.
KeyResults ==
    {Return(<<Secret>>), Raise("ValueError", "JWKS endpoint unreachable")}

\* What jwt.decode does: it returns the claims or raises.
DecodeErrors ==
    { Raise(cls, "decode detail") :
        cls \in {"BadSignatureError", "ExpiredTokenError", "DecodeError",
                 "JoseError", "ValueError"} }

NotCalled == [tag |-> "-", exc |-> NoExc, val |-> <<>>]

\* The requests: without an Authorization header, with another scheme, and
\* with a bearer token, also under another spelling of the header name and
\* of the scheme.
NoToken == [parts |-> 1, header |-> [enc |-> "badb64", json |-> [k |-> "list", alg |-> PyNone]]]

Requests ==
    { [key |-> "", scheme |-> "", token |-> NoToken],
      [key |-> "Authorization", scheme |-> "Basic", token |-> NoToken],
      [key |-> "X-Token", scheme |-> "Bearer", token |-> NoToken] }
    \cup [key : {"Authorization"}, scheme : {"Bearer"}, token : Tokens]
    \cup [key : {"AUTHORIZATION"}, scheme : {"bearer"},
          token : [parts : {2, 3}, header : {GoodHeader}]]

DirectCall(token) == [key |-> "", scheme |-> "", token |-> token]

\* ------------------------------------------------------------------ state

\* The execution contexts (asyncio tasks), each with its own copy of the
\* ContextVar.
Ctx == {"c1", "c2"}

VARIABLES
    cfg,                 \* the verifier's configuration
    jwt_failure_reason,  \* the ContextVar _jwt_failure_reason, per context
    pc,                  \* per context: "idle", or "key" while suspended in _get_verification_key
    call,                \* per context: the call in progress or last made; whether the channel held a category at its start (stale), that category while the call is in progress (first), and whether the call failed with that same category (same)
    load,                \* per context: what load_access_token did in that call
    env,                 \* per context: what the collaborators did in that call
    http,                \* per context: what the request ended as
    fmt,                 \* the direct calls of the error formatter made so far
    factory              \* the last call of create_default_mcp_auth_factory: empty, or its app.config and what it returned and logged

vars == <<cfg, jwt_failure_reason, pc, call, load, env, http, fmt, factory>>

NoCall ==
    [op |-> "none", req |-> DirectCall(NoToken), stale |-> FALSE,
     first |-> NoReason, same |-> FALSE]

NoLoad ==
    [ret |-> "-", exc |-> NoExc, reason |-> NoReason, stages |-> <<>>,
     writes |-> 0, logs |-> <<>>, principal |-> <<>>]

NoEnv == [key |-> NotCalled, dec |-> NotCalled]

NoHttp ==
    [kind |-> "-", response |-> <<>>, raised |-> NoReason, logs |-> <<>>,
     t2 |-> Now]

Init ==
    /\ cfg \in Configs
    /\ jwt_failure_reason = [c \in Ctx |-> NoReason]
    /\ pc = [c \in Ctx |-> "idle"]
    /\ call = [c \in Ctx |-> NoCall]
    /\ load = [c \in Ctx |-> NoLoad]
    /\ env = [c \in Ctx |-> NoEnv]
    /\ http = [c \in Ctx |-> NoHttp]
    /\ fmt = <<>>
    /\ factory = <<>>

\* ---------------------------------------------------------------- actions

\* Mutant: the channel is not reset at the start of load_access_token.
ResetChannelSkipped(old) == old

\* `_jwt_failure_reason.set(None)` at the start of load_access_token.
ResetChannel(old) == NoReason

\* load_access_token ended as o with no result and the category that the
\* channel held when the call started.
Repeats(old, o) == old # NoReason /\ o.ret = "none" /\ o.reason = old

\* Mutant: one variable of the module shared by all contexts.
SlotShared(c) == "c1"

\* The slot of the ContextVar that context c reads and writes: its own.
Slot(c) == c

\* `_jwt_failure_reason.get()` and `_jwt_failure_reason.set(v)` in context c.
Get(c) == jwt_failure_reason[Slot(c)]
Set(c, v) == [jwt_failure_reason EXCEPT ![Slot(c)] = v]

\* The end of a call whose load_access_token ended as o with the channel
\* holding ch.  A direct call ends there.  Within authenticate, an exception
\* passes through both backends and the middleware; otherwise the base
\* backend, the detailed backend and the middleware run.
Finish(c, op, req, o, ch, t2) ==
    /\ pc' = [pc EXCEPT ![c] = "idle"]
    /\ IF op = "load" \/ o.ret = "raise"
       THEN /\ jwt_failure_reason' = Set(c, ch)
            /\ http' = [http EXCEPT ![c] =
                 [NoHttp EXCEPT !.kind =
                    IF o.ret # "raise" THEN "returned"
                    ELSE IF o.exc.cls = "CancelledError" THEN "cancelled"
                    ELSE "error"]]
       ELSE LET a == Authenticate(req, SuperAuthenticate(o, t2), ch) IN
            /\ jwt_failure_reason' = Set(c, a.channel)
            /\ http' = [http EXCEPT ![c] =
                 Dispatch(a, IF o.ret = "principal" THEN t2 ELSE Now)]

\* A call of load_access_token(token) (op = "load") or of
\* authenticate(conn) by the middleware (op = "auth"), up to its end or to
\* its suspension in _get_verification_key.
Call(c, op, req) ==
    /\ pc[c] = "idle"
    /\ env' = [env EXCEPT ![c] = NoEnv]
    /\ IF op = "auth" /\ ~HasBearer(req)
       THEN LET a == Authenticate(req, "none", Get(c)) IN
            /\ call' = [call EXCEPT ![c] =
                 [op |-> op, req |-> req,
                  stale |-> Get(c) # NoReason,
                  first |-> NoReason, same |-> FALSE]]
            /\ load' = [load EXCEPT ![c] = NoLoad]
            /\ jwt_failure_reason' = Set(c, a.channel)
            /\ http' = [http EXCEPT ![c] = Dispatch(a, Now)]
            /\ pc' = pc
       ELSE LET o == LoadPhase1(cfg, req.token)
                ch == IF o.ret = "none" THEN o.reason
                      ELSE ResetChannel(Get(c))
            IN
            /\ call' = [call EXCEPT ![c] =
                 [op |-> op, req |-> req,
                  stale |-> Get(c) # NoReason,
                  first |-> IF o.ret = "await" THEN Get(c)
                            ELSE NoReason,
                  same |-> Repeats(Get(c), o)]]
            /\ load' = [load EXCEPT ![c] = o]
            /\ IF o.ret = "await"
               THEN /\ pc' = [pc EXCEPT ![c] = "key"]
                    /\ jwt_failure_reason' = Set(c, ch)
                    /\ http' = [http EXCEPT ![c] = [NoHttp EXCEPT !.kind = "pending"]]
               ELSE Finish(c, op, req, o, ch, Now)
    /\ UNCHANGED <<cfg, fmt, factory>>

\* _get_verification_key returns or raises and the call runs to its end.
Resume(c, key, dec, t2) ==
    /\ pc[c] = "key"
    /\ LET o == LoadPhase2(cfg, call[c].req.token, key, dec, Now)
           ch == IF o.ret = "none" THEN o.reason ELSE Get(c)
       IN
       /\ call' = [call EXCEPT ![c].first = NoReason,
                              ![c].same = Repeats(call[c].first, o)]
       /\ load' = [load EXCEPT ![c] = o]
       /\ Finish(c, call[c].op, call[c].req, o, ch, t2)
    /\ env' = [env EXCEPT ![c] = [key |-> key, dec |-> dec]]
    /\ UNCHANGED <<cfg, fmt, factory>>

\* The request is cancelled while the call is suspended: CancelledError is
\* raised at the await.
Cancel(c) ==
    /\ pc[c] = "key"
    /\ Resume(c, Raise("CancelledError", ""), NotCalled, Now)

Times2 == {Now, Now + 1}

\* What the collaborators may do at a resumption: the key resolution fails
\* and jwt.decode is not called, or it succeeds and jwt.decode returns
\* claims or raises.
Resumptions ==
    { <<k, NotCalled>> : k \in {r \in KeyResults : r.tag = "exc"} }
    \cup { <<Return(<<Secret>>), d>> :
           d \in DecodeErrors \cup {Return(<<cl>>) : cl \in ClaimSets} }

\* Requests and direct calls made one after the other in one context.
Next ==
    \/ \E req \in Requests : Call("c1", "auth", req)
    \/ \E tok \in Tokens : Call("c1", "load", DirectCall(tok))
    \/ \E r \in Resumptions, t2 \in Times2 : Resume("c1", r[1], r[2], t2)
    \/ Cancel("c1")

Spec == Init /\ [][Next]_vars

\* ------------------------------------------------ concurrent requests

\* Tokens of concurrent requests: well-formed with the configured
\* algorithm, well-formed with another one, and of two parts.
ConcTokens ==
    { [parts |-> 3, header |-> GoodHeader],
      [parts |-> 3, header |-> [enc |-> "ok",
                                json |-> [k |-> "map", alg |-> Str("RS256")]]],
      [parts |-> 2, header |-> GoodHeader] }

\* Claims of concurrent requests: one set that passes under every
\* configuration, and the same with another issuer.
ConcClaims ==
    { [client_id |-> PyNone, azp |-> PyNone, sub |-> Str("user1"),
       exp |-> Num(Now + 1), iss |-> Str(i), aud |-> Str("aud-a"),
       scope |-> List(<<"r", "w">>)] : i \in {"iss-a", "iss-x"} }

ConcResumptions ==
    { <<Raise("ValueError", "JWKS endpoint unreachable"), NotCalled>>,
      <<Return(<<Secret>>), Raise("BadSignatureError", "decode detail")>> }
    \cup { <<Return(<<Secret>>), Return(<<cl>>)>> : cl \in ConcClaims }

\* Two contexts (asyncio tasks), each handling requests and direct calls;
\* a context that is suspended in key resolution lets the other one run.
NextConc ==
    \E c \in Ctx :
        \/ \E tok \in ConcTokens :
              Call(c, "auth", [key |-> "Authorization", scheme |-> "Bearer",
                               token |-> tok])
        \/ \E tok \in ConcTokens : Call(c, "load", DirectCall(tok))
        \/ \E r \in ConcResumptions : Resume(c, r[1], r[2], Now)
        \/ Cancel(c)

SpecConc == Init /\ [][NextConc]_vars

\* ------------------------------------------- the formatter called directly

\* The most direct calls of the formatter.
MaxFmt == 2

\* Messages an AuthenticationError may carry: the categories, and texts
\* holding claim values, configuration values and the key.
Messages ==
    FailureCategory
    \cup { <<"Algorithm mismatch: token uses '", "RS256", "', expected '", "HS256", "'">>,
           <<"Issuer mismatch: token has '", "iss-x", "', expected '", "iss-a", "'">>,
           <<"Token expired for client '", "user1", "'">>,
           <<"Missing required scopes: ", "w", ". Token has: ", "r">>,
           <<Secret>> }

\* _json_auth_error_handler(conn, AuthenticationError(message)).
Format(message) ==
    /\ Len(fmt) < MaxFmt
    /\ fmt' = Append(fmt, [message |-> message,
                           response |-> JsonAuthErrorHandler(message).response,
                           logs |-> JsonAuthErrorHandler(message).logs])
    /\ UNCHANGED <<cfg, jwt_failure_reason, pc, call, load, env, http, factory>>

NextFmt == \E m \in Messages : Format(m)

SpecFmt == Init /\ [][NextFmt]_vars

\* ------------------------------------------------------ the auth factory

\* The values of app.config that create_default_mcp_auth_factory reads.
\* None stands for a key that is not set.
AppConfigs ==
    [MCP_AUTH_ENABLED : BOOLEAN,
     MCP_JWKS_URI : {PyNone, Str("https://idp/jwks")},
     MCP_JWT_PUBLIC_KEY : {PyNone, Str("pem")},
     MCP_JWT_SECRET : {PyNone, Str(Secret)},
     MCP_JWT_ALGORITHM : {PyNone, Str("HS256"), Str("RS256")},
     MCP_JWT_DEBUG_ERRORS : BOOLEAN,
     MCP_JWT_ISSUER : {PyNone, Str("iss-a")},
     MCP_JWT_AUDIENCE : {Str("aud-a")},
     MCP_REQUIRED_SCOPES : {<<>>, <<"r">>}]

\* common_kwargs: the arguments both verifiers are constructed with.  An
\* argument that is not passed has the constructor's default, None.
CommonKwargs(config) ==
    IF config.MCP_JWT_ALGORITHM = Str("HS256") /\ Truthy(config.MCP_JWT_SECRET)
    THEN [issuer |-> config.MCP_JWT_ISSUER,
          audience |-> config.MCP_JWT_AUDIENCE,
          required_scopes |-> config.MCP_REQUIRED_SCOPES,
          jwks_uri |-> PyNone,
          public_key |-> config.MCP_JWT_SECRET,
          algorithm |-> Str("HS256")]
    ELSE [issuer |-> config.MCP_JWT_ISSUER,
          audience |-> config.MCP_JWT_AUDIENCE,
          required_scopes |-> config.MCP_REQUIRED_SCOPES,
          jwks_uri |-> config.MCP_JWKS_URI,
          public_key |-> config.MCP_JWT_PUBLIC_KEY,
          algorithm |-> IF config.MCP_JWT_ALGORITHM = PyNone
                        THEN Str("RS256") ELSE config.MCP_JWT_ALGORITHM]

\* JWTVerifier.__init__ (which DetailedJWTVerifier inherits): it raises
\* ValueError unless exactly one of public_key and jwks_uri is given.
Construct(class, kwargs) ==
    IF ~Truthy(kwargs.public_key) /\ ~Truthy(kwargs.jwks_uri)
    THEN Raise("ValueError", "Either public_key or jwks_uri must be provided")
    ELSE IF Truthy(kwargs.public_key) /\ Truthy(kwargs.jwks_uri)
    THEN Raise("ValueError", "Provide either public_key or jwks_uri, not both")
    ELSE Return(<<[class |-> class, kwargs |-> kwargs]>>)

Error(text) == [level |-> "ERROR", msg |-> text]

\* create_default_mcp_auth_factory(app): the provider it returns (none, or
\* one verifier) and what it logs.
CreateDefaultMcpAuthFactory(config) ==
    IF ~config.MCP_AUTH_ENABLED
    THEN [provider |-> <<>>, logs |-> <<>>]
    ELSE IF ~(\/ Truthy(config.MCP_JWKS_URI)
              \/ Truthy(config.MCP_JWT_PUBLIC_KEY)
              \/ Truthy(config.MCP_JWT_SECRET))
    THEN [provider |-> <<>>,
          logs |-> <<Warning(<<"MCP_AUTH_ENABLED is True but no JWT keys/secret configured">>)>>]
    ELSE LET made == Construct(IF config.MCP_JWT_DEBUG_ERRORS
                               THEN "DetailedJWTVerifier" ELSE "JWTVerifier",
                               CommonKwargs(config))
         IN
         IF made.tag = "exc"
         THEN [provider |-> <<>>,
               logs |-> <<Error(<<"Failed to create MCP auth provider">>)>>]
         ELSE [provider |-> made.val, logs |-> <<>>]

\* A call of create_default_mcp_auth_factory with an app whose config is
\* `config`.
Factory(config) ==
    /\ factory' = <<[config |-> config,
                     result |-> CreateDefaultMcpAuthFactory(config)]>>
    /\ UNCHANGED <<cfg, jwt_failure_reason, pc, call, load, env, http, fmt>>

NextFactory == \E config \in AppConfigs : Factory(config)

SpecFactory == Init /\ [][NextFactory]_vars

\* ================================================================ claims

\* A call was made in context c and has ended.
Done(c) == call[c].op # "none" /\ pc[c] = "idle"

\* The call made in context c reached load_access_token.
Validates(c) ==
    call[c].op = "load" \/ (call[c].op = "auth" /\ HasBearer(call[c].req))

\* The response of spec.md section 6.
GenericResponse ==
    [status_code |-> 401,
     error |-> <<"invalid_token">>,
     error_description |-> <<"Authentication failed">>,
     www_authenticate |-> <<"Bearer error=\"invalid_token\"">>]

\* C1: the error formatter returns status 401, the generic body and the
\* generic WWW-Authenticate header for every message, so the responses of
\* any two calls are identical.
C1_FormatterUniform ==
    /\ \A i \in DOMAIN fmt : fmt[i].response = GenericResponse
    /\ \A i, j \in DOMAIN fmt : fmt[i].response = fmt[j].response

\* Two calls of the formatter with different messages, one of them holding
\* claim and configuration values.
C1_Witness ==
    /\ Len(fmt) = 2
    /\ fmt[1].message # fmt[2].message
    /\ "iss-x" \in Range(fmt[1].message)
    /\ fmt[2].message \in FailureCategory

\* C2: every request with a bearer token whose validation does not give a
\* principal (cancellation aside) ends as the generic 401 response.
C2_UniformFailure ==
    \A c \in Ctx :
        (/\ Done(c)
         /\ call[c].op = "auth"
         /\ HasBearer(call[c].req)
         /\ load[c].ret \in {"none", "raise"}
         /\ load[c].exc.cls # "CancelledError")
        => (http[c].kind = "401" /\ http[c].response = <<GenericResponse>>)

\* The part of C2 that the code keeps: a bearer request whose validation
\* returns no result ends as the generic 401 response, the error carrying
\* the category of that validation.
NoResultGives401 ==
    \A c \in Ctx :
        (/\ Done(c)
         /\ call[c].op = "auth"
         /\ HasBearer(call[c].req)
         /\ load[c].ret = "none")
        => /\ http[c].kind = "401"
           /\ http[c].response = <<GenericResponse>>
           /\ http[c].raised = load[c].reason

\* C3: the failure channel is empty or holds one of the closed set of
\* categories, in every state.
C3_ChannelClosedSet ==
    \A c \in Ctx : jwt_failure_reason[c] \in FailureCategory \cup {NoReason}

\* The channel holds a category after a validation that failed on a claim
\* value and a configuration value, both of which went to the debug log.
C3_Witness ==
    \E c \in Ctx :
        /\ Done(c)
        /\ jwt_failure_reason[c] = <<"Issuer mismatch">>
        /\ \E i \in DOMAIN load[c].logs :
              {"iss-x", "iss-a"} \subseteq Range(load[c].logs[i].msg)

\* The stages in their order, and the categories each publishes.
StageOrder ==
    <<"header", "alg", "key", "decode", "exp", "iss", "aud", "scopes">>

StageCategories(stage) ==
    CASE stage = "header" -> {<<"Malformed token header">>}
      [] stage = "alg" -> {<<"Algorithm mismatch">>}
      [] stage = "key" -> {<<"Failed to get verification key">>}
      [] stage = "decode" -> {<<"Signature verification failed">>,
                              <<"Token has expired (detected during decode)">>,
                              <<"Token decode failed">>}
      [] stage = "exp" -> {<<"Token expired">>}
      [] stage = "iss" -> {<<"Issuer mismatch">>}
      [] stage = "aud" -> {<<"Audience mismatch">>}
      [] stage = "scopes" -> {<<"Missing required scopes">>}

\* The stages the configuration runs, in order.
ConfiguredStages ==
    SelectSeq(StageOrder,
              LAMBDA st : /\ (st = "iss" => Truthy(cfg.issuer))
                          /\ (st = "aud" => Truthy(cfg.audience)))

\* The stages entered are an initial piece of the order, a category other
\* than the boundary's is that of the last stage entered, and an algorithm
\* mismatch ends the call before key resolution.
StagesInOrder(c) ==
    LET st == load[c].stages IN
    /\ Len(st) <= Len(ConfiguredStages)
    /\ st = SubSeq(ConfiguredStages, 1, Len(st))
    /\ (load[c].ret = "none" /\ load[c].reason # <<"Token validation failed">>)
         => load[c].reason \in StageCategories(st[Len(st)])
    /\ load[c].reason = <<"Algorithm mismatch">>
         => (env[c].key = NotCalled /\ "key" \notin Range(st)
             /\ "decode" \notin Range(st))

\* An issuer is configured, and the decoded claims of the call in context c
\* are expired and carry an issuer no configuration expects.
ExpiredAndWrongIssuer(c) ==
    /\ Truthy(cfg.issuer)
    /\ env[c].dec.tag = "ok"
    /\ env[c].dec.val[1].exp.k = "num"
    /\ env[c].dec.val[1].exp.n < Now
    /\ env[c].dec.val[1].iss = Str("iss-x")

\* C4: the stages run in the fixed order, the category is that of the first
\* stage that fails, no later stage runs, and a token that is both expired
\* and has the wrong issuer reports "Token expired".
C4_FirstFailingStage ==
    \A c \in Ctx :
        (Done(c) /\ Validates(c))
        => /\ StagesInOrder(c)
           /\ ExpiredAndWrongIssuer(c) => load[c].reason = <<"Token expired">>

\* The part of C4 that the code keeps: the order of the stages, and the
\* example for every expired token whose exp is not 0.
StageOrderKept ==
    \A c \in Ctx :
        (Done(c) /\ Validates(c))
        => /\ StagesInOrder(c)
           /\ (ExpiredAndWrongIssuer(c) /\ env[c].dec.val[1].exp.n # 0)
                => load[c].reason = <<"Token expired">>

\* C5: when load_access_token returns, either it returned a principal and
\* the channel is empty, or it returned no result and the channel holds a
\* category.
C5_PrincipalXorCategory ==
    \A c \in Ctx :
        (Done(c) /\ call[c].op = "load" /\ load[c].ret # "raise")
        => \/ load[c].ret = "principal" /\ jwt_failure_reason[c] = NoReason
           \/ /\ load[c].ret = "none"
              /\ jwt_failure_reason[c] \in FailureCategory

\* A successful validation that started with a stale category in the
\* channel.
C5_Witness ==
    \E c \in Ctx :
        /\ Done(c)
        /\ call[c].op = "load"
        /\ call[c].stale
        /\ load[c].ret = "principal"
        /\ jwt_failure_reason[c] = NoReason

\* C6: no exception raised inside load_access_token reaches the caller
\* (cancellation aside): the boundary turns it into no result and
\* "Token validation failed".
C6_BoundaryCatchesAll ==
    \A c \in Ctx :
        (Done(c) /\ load[c].ret = "raise")
        => load[c].exc.cls = "CancelledError"

\* C7: a token that does not split into exactly 3 parts gives no result and
\* "Malformed token header", without reaching key resolution.
C7_NotThreeParts ==
    \A c \in Ctx :
        (Validates(c) /\ call[c].req.token.parts # 3)
        => /\ pc[c] = "idle"
           /\ load[c].ret = "none"
           /\ load[c].reason = <<"Malformed token header">>
           /\ call[c].op = "load"
                => jwt_failure_reason[c] = <<"Malformed token header">>

\* A direct call with a token of 4 parts whose first part is a well-formed
\* header has ended.
C7_Witness ==
    \E c \in Ctx :
        /\ Done(c)
        /\ call[c].op = "load"
        /\ call[c].req.token.parts = 4
        /\ call[c].req.token.header = GoodHeader
        /\ jwt_failure_reason[c] = <<"Malformed token header">>

\* The first part of the token decodes to a key/value mapping.
HeaderIsMapping(token) ==
    token.header.enc = "ok" /\ token.header.json.k = "map"

\* C8: a 3-part token whose first part does not decode to a key/value
\* mapping gives no result and "Malformed token header".
C8_HeaderNotMapping ==
    \A c \in Ctx :
        (/\ Validates(c)
         /\ call[c].req.token.parts = 3
         /\ ~HeaderIsMapping(call[c].req.token))
        => /\ pc[c] = "idle"
           /\ load[c].ret = "none"
           /\ load[c].reason = <<"Malformed token header">>

\* C9: with an algorithm configured, a well-formed header whose alg differs
\* from it, or is absent, gives no result and exactly "Algorithm mismatch",
\* which holds neither algorithm name.
C9_AlgorithmMismatch ==
    \A c \in Ctx :
        (/\ Validates(c)
         /\ Truthy(cfg.algorithm)
         /\ call[c].req.token.parts = 3
         /\ HeaderIsMapping(call[c].req.token)
         /\ call[c].req.token.header.json.alg # cfg.algorithm)
        => /\ pc[c] = "idle"
           /\ load[c].ret = "none"
           /\ load[c].reason = <<"Algorithm mismatch">>
           /\ Range(load[c].reason)
                \cap (Range(Shown(cfg.algorithm))
                      \cup Range(Shown(call[c].req.token.header.json.alg))) = {}
           /\ call[c].op = "load"
                => jwt_failure_reason[c] = <<"Algorithm mismatch">>

\* A direct call with a header that has no alg, under a configured
\* algorithm, has ended.
C9_Witness ==
    \E c \in Ctx :
        /\ Done(c)
        /\ call[c].op = "load"
        /\ Truthy(cfg.algorithm)
        /\ call[c].req.token.parts = 3
        /\ HeaderIsMapping(call[c].req.token)
        /\ call[c].req.token.header.json.alg = PyNone
        /\ jwt_failure_reason[c] = <<"Algorithm mismatch">>

\* C10: an error raised by key resolution gives no result and
\* "Failed to get verification key", which does not hold the exception's
\* text.
C10_KeyResolutionError ==
    \A c \in Ctx :
        (/\ Done(c)
         /\ env[c].key.tag = "exc"
         /\ env[c].key.exc.cls # "CancelledError")
        => /\ load[c].ret = "none"
           /\ load[c].reason = <<"Failed to get verification key">>
           /\ env[c].key.exc.msg \notin Range(load[c].reason)
           /\ call[c].op = "load"
                => jwt_failure_reason[c] = <<"Failed to get verification key">>

\* A direct call whose key resolution raised has ended, and the exception's
\* text is in the debug log.
C10_Witness ==
    \E c \in Ctx :
        /\ Done(c)
        /\ call[c].op = "load"
        /\ env[c].key.tag = "exc"
        /\ env[c].key.exc.cls = "ValueError"
        /\ jwt_failure_reason[c] = <<"Failed to get verification key">>
        /\ \E i \in DOMAIN load[c].logs :
              env[c].key.exc.msg \in Range(load[c].logs[i].msg)

\* jwt.decode raised an error of the library (a JoseError) in the call of
\* context c.
DecodeRaised(c) ==
    /\ Done(c)
    /\ env[c].dec.tag = "exc"
    /\ IsInstance(env[c].dec.exc, {"JoseError"})

\* The category of a decode error, by its class.
DecodeCategory(e) ==
    IF e.cls = "BadSignatureError" THEN <<"Signature verification failed">>
    ELSE IF e.cls = "ExpiredTokenError"
    THEN <<"Token has expired (detected during decode)">>
    ELSE <<"Token decode failed">>

Decoded(c) == Done(c) /\ env[c].dec.tag = "ok"

\* The claims jwt.decode returned in the call of context c.
Claims(c) == env[c].dec.val[1]

\* The values of the claims that are strings.
ClaimValues(claims) ==
    UNION { Range(claims[f].v) : f \in {"client_id", "azp", "sub", "iss", "aud", "scope"} }

\* C12: decoded claims whose exp is a number less than the current time, 0
\* included, give no result and exactly "Token expired", which holds no
\* claim value.
C12_ExpiredRejected ==
    \A c \in Ctx :
        (/\ Decoded(c)
         /\ Claims(c).exp.k = "num"
         /\ Claims(c).exp.n < Now)
        => /\ load[c].ret = "none"
           /\ load[c].reason = <<"Token expired">>
           /\ Range(load[c].reason) \cap ClaimValues(Claims(c)) = {}
           /\ call[c].op = "load" => jwt_failure_reason[c] = <<"Token expired">>

\* The part of C12 that the code keeps: the same for every exp other than 0.
ExpiredNonZeroRejected ==
    \A c \in Ctx :
        (/\ Decoded(c)
         /\ Claims(c).exp.k = "num"
         /\ Claims(c).exp.n < Now
         /\ Claims(c).exp.n # 0)
        => /\ load[c].ret = "none"
           /\ load[c].reason = <<"Token expired">>
           /\ Range(load[c].reason) \cap ClaimValues(Claims(c)) = {}
           /\ call[c].op = "load" => jwt_failure_reason[c] = <<"Token expired">>

\* The set of values of a claim or of a configured value: empty for None,
\* one value for a string, the elements for a list.
Values(x) == IF x.k = "none" THEN {} ELSE Range(x.v)

\* The stages before the issuer stage passed in the call of context c.
PassedExpiry(c) ==
    /\ Decoded(c)
    /\ Claims(c).exp.k \in {"none", "num"}
    /\ Claims(c).exp.k = "num" => (Claims(c).exp.n = 0 \/ Claims(c).exp.n >= Now)

\* The token's iss is the configured issuer or one of the configured list.
IssuerMatches(c) ==
    /\ Claims(c).iss.k = "str"
    /\ Values(Claims(c).iss) \subseteq Values(cfg.issuer)

\* C13: with an issuer configured and the earlier stages passed, the issuer
\* stage passes exactly when the token's iss equals the configured value or
\* is a member of the configured list; otherwise there is no result and the
\* category is exactly "Issuer mismatch", holding neither issuer.
C13_IssuerStage ==
    \A c \in Ctx :
        (PassedExpiry(c) /\ Truthy(cfg.issuer))
        => /\ "iss" \in Range(load[c].stages)
           /\ IssuerMatches(c)
                => /\ load[c].stages[Len(load[c].stages)] # "iss"
                   /\ load[c].reason # <<"Issuer mismatch">>
           /\ ~IssuerMatches(c)
                => /\ load[c].ret = "none"
                   /\ load[c].reason = <<"Issuer mismatch">>
                   /\ Range(load[c].reason)
                        \cap (Values(Claims(c).iss) \cup Values(cfg.issuer)) = {}
                   /\ call[c].op = "load"
                        => jwt_failure_reason[c] = <<"Issuer mismatch">>

\* Under a configured list of issuers, a token whose iss is the second of
\* the list passed the issuer stage and gave a principal.
C13_Witness ==
    \E c \in Ctx :
        /\ PassedExpiry(c)
        /\ cfg.issuer.k = "list"
        /\ Claims(c).iss = Str(cfg.issuer.v[2])
        /\ load[c].ret = "principal"

\* The stages before the audience stage passed in the call of context c.
PassedIssuer(c) ==
    PassedExpiry(c) /\ (Truthy(cfg.issuer) => IssuerMatches(c))

\* The expected audiences and the token's audiences share a value.
AudienceIntersects(c) ==
    Values(cfg.audience) \cap Values(Claims(c).aud) # {}

\* C14: with an audience configured, the audience stage passes exactly when
\* the set of expected values and the set of the token's aud values share
\* an element, whether each is a single value or a list; otherwise there
\* is no result and the category is "Audience mismatch".
C14_AudienceStage ==
    \A c \in Ctx :
        (PassedIssuer(c) /\ Truthy(cfg.audience))
        => /\ "aud" \in Range(load[c].stages)
           /\ AudienceIntersects(c)
                => /\ load[c].stages[Len(load[c].stages)] # "aud"
                   /\ load[c].reason # <<"Audience mismatch">>
           /\ ~AudienceIntersects(c)
                => /\ load[c].ret = "none"
                   /\ load[c].reason = <<"Audience mismatch">>
                   /\ call[c].op = "load"
                        => jwt_failure_reason[c] = <<"Audience mismatch">>

\* A configured list and a token list that share their second elements
\* only: the audience stage passed and the call gave a principal.
C14_Witness ==
    \E c \in Ctx :
        /\ PassedIssuer(c)
        /\ cfg.audience = List(<<"aud-b", "aud-a">>)
        /\ Claims(c).aud = List(<<"aud-x", "aud-a">>)
        /\ load[c].ret = "principal"

\* The stages before the scope stage passed in the call of context c, and
\* the scope claim is absent, a string or a list of strings.
PassedAudience(c) ==
    /\ PassedIssuer(c)
    /\ Truthy(cfg.audience) => AudienceIntersects(c)
    /\ Claims(c).scope.k \in {"none", "str", "list"}

\* The token's normalized scope set: the words of a string, the elements
\* of a list.
ScopeSet(c) ==
    IF Claims(c).scope.k = "str" THEN Range(Split(Claims(c).scope.v[1]))
    ELSE Values(Claims(c).scope)

\* C15: with required scopes configured and the earlier stages passed, the
\* scope stage passes exactly when the token's scope set holds every
\* required scope; otherwise there is no result and the category is
\* exactly "Missing required scopes", naming no missing scope.
C15_ScopeStage ==
    \A c \in Ctx :
        (PassedAudience(c) /\ cfg.required_scopes # <<>>)
        => /\ Range(cfg.required_scopes) \subseteq ScopeSet(c)
                => /\ load[c].ret = "principal"
                   /\ Range(load[c].principal[1].scopes) = ScopeSet(c)
           /\ ~(Range(cfg.required_scopes) \subseteq ScopeSet(c))
                => /\ load[c].ret = "none"
                   /\ load[c].reason = <<"Missing required scopes">>
                   /\ Range(load[c].reason)
                        \cap (Range(cfg.required_scopes) \ ScopeSet(c)) = {}
                   /\ call[c].op = "load"
                        => jwt_failure_reason[c] = <<"Missing required scopes">>

\* A token with the one scope "r" under the required scopes "r" and "w":
\* no result, the category in the channel, the missing scope in the debug
\* log.
C15_Witness ==
    \E c \in Ctx :
        /\ PassedAudience(c)
        /\ call[c].op = "load"
        /\ cfg.required_scopes = <<"r", "w">>
        /\ Claims(c).scope = Str("r")
        /\ jwt_failure_reason[c] = <<"Missing required scopes">>
        /\ \E i \in DOMAIN load[c].logs : "w" \in Range(load[c].logs[i].msg)

\* The call of context c passed all stages and returned a principal.
Passed(c) == Decoded(c) /\ load[c].ret = "principal"

\* The first of the claims client_id, azp and sub that is present, else
\* "unknown".
FirstPresent(claims) ==
    IF claims.client_id.k # "none" THEN claims.client_id.v[1]
    ELSE IF claims.azp.k # "none" THEN claims.azp.v[1]
    ELSE IF claims.sub.k # "none" THEN claims.sub.v[1]
    ELSE "unknown"

\* C16: the principal's client identity is the client_id claim if present,
\* else the azp claim, else the sub claim, else "unknown".
C16_ClientIdentity ==
    \A c \in Ctx :
        Passed(c) => load[c].principal[1].client_id = FirstPresent(Claims(c))

\* The part of C16 that the code keeps: the same when no identity claim is
\* the empty string.
ClientIdentityOfNonEmptyClaims ==
    \A c \in Ctx :
        (/\ Passed(c)
         /\ \A f \in {"client_id", "azp", "sub"} : Claims(c)[f] # Str(""))
        => load[c].principal[1].client_id = FirstPresent(Claims(c))

\* C17: the principal's expires_at is the integer value of the exp claim
\* whenever the token has one, and is absent exactly when it has none.
C17_ExpiresAt ==
    \A c \in Ctx :
        Passed(c)
        => /\ Claims(c).exp.k # "none"
                => load[c].principal[1].expires_at = Num(Claims(c).exp.n)
           /\ load[c].principal[1].expires_at = NoExp
                <=> Claims(c).exp.k = "none"

\* The part of C17 that the code keeps: the same for every exp other than 0.
ExpiresAtOfNonZeroExp ==
    \A c \in Ctx :
        (Passed(c) /\ Claims(c).exp # Num(0))
        => /\ Claims(c).exp.k # "none"
                => load[c].principal[1].expires_at = Num(Claims(c).exp.n)
           /\ load[c].principal[1].expires_at = NoExp
                <=> Claims(c).exp.k = "none"

\* What load_access_token does in the call of context c, from the call's
\* own inputs alone: the configuration, the token, and what key resolution
\* and jwt.decode did.
OwnOutcome(c) ==
    LET o1 == LoadPhase1(cfg, call[c].req.token) IN
    IF o1.ret # "await" \/ pc[c] = "key" THEN o1
    ELSE LoadPhase2(cfg, call[c].req.token, env[c].key, env[c].dec, Now)

\* The category an outcome leaves in the channel.
CategoryOf(o) == IF o.ret = "none" THEN o.reason ELSE NoReason

\* C18: whatever category an earlier validation left in the channel, the
\* channel during and after a validation in the same context holds what
\* that validation's own token and configuration give: the earlier
\* category is there only if this validation failed at that same stage.
C18_SecondCallOwnCategory ==
    \A c \in Ctx :
        call[c].op = "load"
        => /\ jwt_failure_reason[c] = CategoryOf(OwnOutcome(c))
           /\ (Done(c) /\ call[c].stale /\ ~call[c].same)
                => \/ jwt_failure_reason[c] = NoReason
                   \/ /\ load[c].ret = "none"
                      /\ jwt_failure_reason[c] = load[c].reason

\* A validation that began with another failure's category in the channel
\* has failed at the issuer stage, and the channel holds "Issuer mismatch".
C18_Witness ==
    \E c \in Ctx :
        /\ Done(c)
        /\ call[c].op = "load"
        /\ call[c].stale
        /\ ~call[c].same
        /\ load[c].ret = "none"
        /\ jwt_failure_reason[c] = <<"Issuer mismatch">>

\* The request has no Authorization header, or its value does not start
\* with the bearer scheme.
NoBearerHeader(req) ==
    \/ req.key \notin {"Authorization", "AUTHORIZATION"}
    \/ req.scheme \notin {"Bearer", "bearer", "BEARER"}

\* C19: authenticate returns None and raises no authentication error for a
\* request without an Authorization header or with a value of another
\* scheme, whatever the channel holds.
C19_NoBearerUnauthenticated ==
    \A c \in Ctx :
        (call[c].op = "auth" /\ NoBearerHeader(call[c].req))
        => /\ pc[c] = "idle"
           /\ http[c].kind = "anonymous"
           /\ http[c].raised = NoReason
           /\ http[c].response = <<>>
           /\ load[c] = NoLoad

\* A request with a Basic Authorization header ended as unauthenticated
\* although the channel held a category, which it still holds.
C19_Witness ==
    \E c \in Ctx :
        /\ Done(c)
        /\ call[c].op = "auth"
        /\ call[c].req.key = "Authorization"
        /\ call[c].req.scheme = "Basic"
        /\ call[c].stale
        /\ jwt_failure_reason[c] # NoReason
        /\ http[c].kind = "anonymous"

\* The request of context c carried a bearer token and has ended other
\* than by an exception.
BearerDone(c) ==
    /\ Done(c)
    /\ call[c].op = "auth"
    /\ ~NoBearerHeader(call[c].req)
    /\ load[c].ret # "raise"

\* The base backend gave no result: load_access_token returned none, or a
\* principal whose expires_at lies before the time of the base backend's
\* own check.
NoResult(c) ==
    \/ load[c].ret = "none"
    \/ /\ load[c].ret = "principal"
       /\ ExpTruthy(load[c].principal[1].expires_at)
       /\ load[c].principal[1].expires_at.n < http[c].t2

\* C20: for a request with a bearer token, under any spelling of the header
\* name and the scheme, whose validation gives no result, authenticate
\* raises an AuthenticationError with the channel's category as message
\* and empties the channel; when the channel is empty it returns None and
\* raises nothing.
C20_BearerFailureRaised ==
    \A c \in Ctx :
        BearerDone(c)
        => /\ load[c] # NoLoad
           /\ (NoResult(c) /\ CategoryOf(load[c]) # NoReason)
                => /\ http[c].kind = "401"
                   /\ http[c].raised = CategoryOf(load[c])
                   /\ jwt_failure_reason[c] = NoReason
           /\ (NoResult(c) /\ CategoryOf(load[c]) = NoReason)
                => /\ http[c].kind = "anonymous"
                   /\ http[c].raised = NoReason
                   /\ jwt_failure_reason[c] = NoReason

\* A request with the header AUTHORIZATION and the scheme bearer, whose
\* token has two parts, ended with the error "Malformed token header"
\* raised and the channel empty.
C20_Witness ==
    \E c \in Ctx :
        /\ BearerDone(c)
        /\ call[c].req.key = "AUTHORIZATION"
        /\ call[c].req.scheme = "bearer"
        /\ load[c].ret = "none"
        /\ http[c].kind = "401"
        /\ http[c].raised = <<"Malformed token header">>
        /\ jwt_failure_reason[c] = NoReason

\* The other case of C20: the base backend gave no result with the channel
\* empty, and the request ended as unauthenticated.
EmptyChannelNoResult ==
    \E c \in Ctx :
        /\ BearerDone(c)
        /\ NoResult(c)
        /\ CategoryOf(load[c]) = NoReason
        /\ http[c].kind = "anonymous"

C22_OwnSlot ==
    \A c \in Ctx :
        /\ (Done(c) /\ call[c].op = "auth" /\ http[c].kind = "401")
             => /\ load[c].ret = "none"
                /\ http[c].raised = CategoryOf(OwnOutcome(c))
        /\ call[c].op = "load"
             => jwt_failure_reason[c] = CategoryOf(OwnOutcome(c))
        /\ (call[c].op = "auth" /\ load[c].ret = "none")
             => http[c].kind = "401"
        /\ pc[c] = "key" => jwt_failure_reason[c] = NoReason

\* One context is suspended in key resolution with its channel empty while
\* the channel of the other, whose validation failed after its own
\* suspension, holds "Issuer mismatch".
C22_Witness ==
    /\ pc["c1"] = "key"
    /\ jwt_failure_reason["c1"] = NoReason
    /\ Done("c2")
    /\ call["c2"].op = "load"
    /\ env["c2"].dec.tag = "ok"
    /\ jwt_failure_reason["c2"] = <<"Issuer mismatch">>

\* The call of context c was cancelled while suspended in key resolution.
Cancelled(c) == Done(c) /\ env[c].key.exc.cls = "CancelledError"

\* C23: a call cancelled while suspended in key resolution ends with the
\* CancelledError raised to the caller, not with a "no result" return, and
\* the channel of its context is empty afterwards.
C23_CancellationPropagates ==
    \A c \in Ctx :
        Cancelled(c)
        => /\ load[c].ret = "raise"
           /\ load[c].exc.cls = "CancelledError"
           /\ load[c].reason = NoReason
           /\ http[c].kind = "cancelled"
           /\ http[c].response = <<>>
           /\ jwt_failure_reason[c] = NoReason

\* A direct validation that started with a category in the channel was
\* cancelled in key resolution; the channel is empty.
C23_Witness ==
    \E c \in Ctx :
        /\ Cancelled(c)
        /\ call[c].op = "load"
        /\ call[c].stale
        /\ load[c].stages = <<"header", "alg", "key">>
        /\ jwt_failure_reason[c] = NoReason

\* The entries logged in the call of context c: by load_access_token, and
\* by the error formatter behind the middleware.
Logged(c) == Range(load[c].logs) \cup Range(http[c].logs)

\* C24: every entry logged at WARNING or above during validation, dispatch
\* and error formatting is the fixed text followed by one category of the
\* closed set; algorithm, issuer, audience, subject and scope values and
\* exception texts are in DEBUG entries only.
C24_WarningsCarryCategoryOnly ==
    \A c \in Ctx : \A e \in Logged(c) :
        e.level # "DEBUG"
        => \E cat \in FailureCategory :
              e.msg = <<"JWT authentication failed: ">> \o cat

\* A bearer request failed at the issuer stage: the two issuers are in a
\* DEBUG entry, and the WARNING entry carries "Issuer mismatch".
C24_Witness ==
    \E c \in Ctx :
        /\ Done(c)
        /\ call[c].op = "auth"
        /\ \E e \in Range(load[c].logs) :
              e.level = "DEBUG" /\ {"iss-x", "iss-a"} \subseteq Range(e.msg)
        /\ \E e \in Range(http[c].logs) :
              /\ e.level = "WARNING"
              /\ e.msg = <<"JWT authentication failed: ", "Issuer mismatch">>

\* Every text the call of context c produced: the log entries, the channel,
\* the raised error's message and the fields of the HTTP response.
Outputs(c) ==
    { e.msg : e \in Logged(c) }
    \cup {jwt_failure_reason[c], load[c].reason, http[c].raised}
    \cup UNION { {http[c].response[i].error,
                  http[c].response[i].error_description,
                  http[c].response[i].www_authenticate} :
                i \in DOMAIN http[c].response }

\* C25: the verification key is in no log entry of any level, nor in the
\* channel, nor in the error raised, nor in the HTTP response.
C25_KeyNeverOutput ==
    \A c \in Ctx : \A text \in Outputs(c) : Secret \notin Range(text)

\* A bearer request whose key was resolved and whose decode failed ended
\* as a 401, the decode error's text in a DEBUG entry.
C25_Witness ==
    \E c \in Ctx :
        /\ Done(c)
        /\ call[c].op = "auth"
        /\ env[c].key.val = <<Secret>>
        /\ env[c].dec.exc.cls = "DecodeError"
        /\ http[c].kind = "401"
        /\ \E e \in Range(load[c].logs) : env[c].dec.exc.msg \in Range(e.msg)

\* Authentication is disabled, or none of the JWKS URI, the public key and
\* the secret is configured.
NothingToBuild(config) ==
    \/ ~config.MCP_AUTH_ENABLED
    \/ /\ config.MCP_JWKS_URI = PyNone
       /\ config.MCP_JWT_PUBLIC_KEY = PyNone
       /\ config.MCP_JWT_SECRET = PyNone

\* The provider is the detailed verifier exactly when MCP_JWT_DEBUG_ERRORS
\* is true and the minimal one when it is false, with the arguments that
\* the other value of MCP_JWT_DEBUG_ERRORS gives as well.
BuiltAsConfigured(f) ==
    /\ Len(f.result.provider) = 1
    /\ f.result.provider[1].class =
         (IF f.config.MCP_JWT_DEBUG_ERRORS
          THEN "DetailedJWTVerifier" ELSE "JWTVerifier")
    /\ LET other == [f.config EXCEPT
                       !.MCP_JWT_DEBUG_ERRORS = ~f.config.MCP_JWT_DEBUG_ERRORS]
           kw == f.result.provider[1].kwargs
       IN
       /\ CreateDefaultMcpAuthFactory(other).provider # <<>>
       /\ kw = CreateDefaultMcpAuthFactory(other).provider[1].kwargs
       /\ kw.issuer = f.config.MCP_JWT_ISSUER
       /\ kw.audience = f.config.MCP_JWT_AUDIENCE
       /\ kw.required_scopes = f.config.MCP_REQUIRED_SCOPES

\* C26: create_default_mcp_auth_factory returns no provider when
\* authentication is disabled or no JWKS URI, public key or secret is
\* configured; otherwise it returns the detailed verifier exactly when
\* MCP_JWT_DEBUG_ERRORS is true and the minimal verifier when it is false,
\* both with the same issuer, audience, required scopes, key and algorithm.
C26_FactoryChoosesVerifier ==
    \A i \in DOMAIN factory :
        IF NothingToBuild(factory[i].config)
        THEN factory[i].result.provider = <<>>
        ELSE BuiltAsConfigured(factory[i])

\* The part of C26 that the code keeps: the same whenever the arguments
\* hold exactly one of a key and a JWKS URI, which is when the verifier's
\* constructor accepts them.
FactoryChoosesVerifierWhenConstructible ==
    \A i \in DOMAIN factory :
        LET kw == CommonKwargs(factory[i].config) IN
        IF NothingToBuild(factory[i].config)
        THEN factory[i].result.provider = <<>>
        ELSE (Truthy(kw.public_key) # Truthy(kw.jwks_uri))
             => BuiltAsConfigured(factory[i])

\* C27: the expiry stage compares epoch seconds strictly: a token whose exp
\* is the current time or later is never rejected with "Token expired";
\* one that is rejected so has an exp less than the current time.
C27_StrictExpiry ==
    \A c \in Ctx :
        Decoded(c)
        => /\ (Claims(c).exp.k = "num" /\ Claims(c).exp.n >= Now)
                => /\ load[c].reason # <<"Token expired">>
                   /\ load[c].stages[Len(load[c].stages)] # "exp"
           /\ load[c].reason = <<"Token expired">>
                => (Claims(c).exp.k = "num" /\ Claims(c).exp.n < Now)

\* A token whose exp is the current time passed the expiry stage and gave
\* a principal with that expires_at.
C27_Witness ==
    \E c \in Ctx :
        /\ Decoded(c)
        /\ Claims(c).exp = Num(Now)
        /\ load[c].ret = "principal"
        /\ load[c].principal[1].expires_at = Num(Now)

C29_AbsentClaimRejected ==
    \A c \in Ctx :
        Decoded(c)
        => /\ (Truthy(cfg.issuer) /\ Claims(c).iss = PyNone)
                => /\ load[c].ret # "principal"
                   /\ PassedExpiry(c)
                        => (/\ load[c].ret = "none"
                            /\ load[c].reason = <<"Issuer mismatch">>)
           /\ (Truthy(cfg.audience) /\ Claims(c).aud = PyNone)
                => /\ load[c].ret # "principal"
                   /\ PassedIssuer(c)
                        => (/\ load[c].ret = "none"
                            /\ load[c].reason = <<"Audience mismatch">>)

\* Under a configured list of issuers, a token without an iss claim was
\* rejected with "Issuer mismatch", the debug entry showing None.
C29_Witness ==
    \E c \in Ctx :
        /\ PassedExpiry(c)
        /\ cfg.issuer.k = "list"
        /\ Claims(c).iss = PyNone
        /\ load[c].reason = <<"Issuer mismatch">>
        /\ \E e \in Range(load[c].logs) : "None" \in Range(e.msg)

\* C30: in any sequence of requests and direct validations in one context,
\* every AuthenticationError raised is for a request with a bearer token
\* whose own validation returned no result, and carries the category that
\* validation set, not one left by an earlier request or direct call.
C30_RaisedCategoryIsOwn ==
    \A c \in Ctx :
        (Done(c) /\ http[c].kind = "401")
        => /\ call[c].op = "auth"
           /\ ~NoBearerHeader(call[c].req)
           /\ load[c].ret = "none"
           /\ http[c].raised # NoReason
           /\ http[c].raised = CategoryOf(OwnOutcome(c))
           /\ http[c].logs =
                <<Warning(<<"JWT authentication failed: ">>
                          \o CategoryOf(OwnOutcome(c)))>>

\* A bearer request made while the channel held another category, left by
\* an earlier direct validation, ended with "Algorithm mismatch" raised.
C30_Witness ==
    \E c \in Ctx :
        /\ Done(c)
        /\ call[c].op = "auth"
        /\ call[c].stale
        /\ ~call[c].same
        /\ http[c].kind = "401"
        /\ http[c].raised = <<"Algorithm mismatch">>

====
